---- MODULE Spec2Model ----
(***************************************************************************)
(* Task & Pomodoro session engine of manovyam.                             *)
(*                                                                         *)
(*   LocalTaskService   (services/implementations/LocalTaskService.ts)     *)
(*       the task store and the session store kept in localStorage         *)
(*   useTaskViewModel   (viewmodels/useTaskViewModel.ts)                   *)
(*       the jotai atoms, the handlers startTask, togglePause, stopTask,   *)
(*       completeTask, task CRUD, and the one-second countdown effect      *)
(*                                                                         *)
(* Time is the value of Date.now() in milliseconds.  Dates that are unset  *)
(* (undefined) are NoDate, texts that are unset are NoText, and a null     *)
(* object (currentSession, a task that is not found) is the empty          *)
(* sequence.  A partial DTO is a function whose domain is the set of the   *)
(* keys that are present in it.                                            *)
(***************************************************************************)
EXTENDS Integers, Sequences, FiniteSets, TLC

(***************************************************************************)
(* Bounds of the model.                                                    *)
(***************************************************************************)
MaxTasks == 2
MaxSessions == 2
MaxWorkDuration == 2
WorkDurationDenominator == 20
MaxNoteTitles == 2
MaxNoteTasks == 3
MaxAdvances == 4
MaxInFlight == 2
ClockStep == 30000

(***************************************************************************)
(* Constants of the program.                                               *)
(***************************************************************************)
MsPerSecond == 1000
SecondsPerMinute == 60
DefaultTimerSeconds == 25 * 60

NoDate == -1
NoText == "undefined"
NoId == 0

\* the inputs of the calls: task ids (the last one is never created),
\* work durations in minutes, update DTOs, and the texts given to stopTask
TaskIds == 1..(MaxTasks + 1)
WorkDurations == 1..MaxWorkDuration
Statuses == {"todo", "in_progress", "done", "cancelled"}
UpdateDtos == {<<>>} \cup {[status |-> s] : s \in Statuses}
StopArgs == {<<NoText, NoText>>, <<"Wrote spec", "Review">>}

VARIABLES
    now,               \* Date.now(), milliseconds
    tasks,             \* localStorage "manovyam-tasks": sequence of Task
    sessions,          \* localStorage "manovyam-task-sessions": sequence of TaskSession
    nextTaskId,        \* the next fresh task id
    tasksAtom,         \* tasksAtom
    activeTaskId,      \* activeTaskIdAtom (NoId is null)
    currentSession,    \* currentSessionAtom (<<>> is null, else <<session>>)
    timerState,        \* pomodoroTimerAtom
    pomodoroSettings,  \* pomodoroSettingsAtom (stored)
    taskSessionsAtom,  \* taskSessionsAtom
    last,              \* the last event (a call, a callback of the interval,
                       \* a new reading of the clock) and the error it threw
    ticks,             \* history: callbacks of the interval since the last
                       \* startTask, 0 again once stopTask has reset the timer
    call,              \* the startTask or stopTask that has not yet returned
                       \* (<<>> when none) and the await it has reached
    inFlight           \* the startTask and stopTask calls that wait for a
                       \* promise of a slow service, with their closures

vars == <<now, tasks, sessions, nextTaskId, tasksAtom, activeTaskId,
          currentSession, timerState, pomodoroSettings, taskSessionsAtom,
          last, ticks, call, inFlight>>

storeVars == <<tasks, sessions, nextTaskId>>
atomVars == <<tasksAtom, activeTaskId, currentSession, timerState,
              pomodoroSettings, taskSessionsAtom>>

----------------------------------------------------------------------------
(***************************************************************************)
(* Helpers on arrays and object spreads.                                   *)
(***************************************************************************)

\* Array.prototype.findIndex on the id; 0 stands for -1
FindIndex(seq, id) ==
    IF \E i \in 1..Len(seq) : seq[i].id = id
    THEN CHOOSE i \in 1..Len(seq) :
            /\ seq[i].id = id
            /\ \A j \in 1..(i - 1) : seq[j].id # id
    ELSE 0

\* mutant of Spread: a status that the DTO does not give becomes todo
Spread_DefaultsStatus(obj, dto) ==
    [f \in DOMAIN obj \cup DOMAIN dto |->
        IF f \in DOMAIN dto THEN dto[f]
        ELSE IF f = "status" THEN "todo" ELSE obj[f]]

\* { ...obj, ...dto }
Spread(obj, dto) ==
    [f \in DOMAIN obj \cup DOMAIN dto |->
        IF f \in DOMAIN dto THEN dto[f] ELSE obj[f]]

----------------------------------------------------------------------------
(***************************************************************************)
(* LocalTaskService                                                        *)
(***************************************************************************)

\* getTaskById: the task, or null
getTaskById(ts, id) ==
    IF FindIndex(ts, id) = 0 THEN <<>> ELSE <<ts[FindIndex(ts, id)]>>

\* createTask: the new task object
NewTask(id, dto, t) ==
    [id |-> id,
     noteId |-> IF "noteId" \in DOMAIN dto THEN dto.noteId ELSE NoText,
     title |-> dto.title,
     status |-> "todo",
     priority |-> IF "priority" \in DOMAIN dto THEN dto.priority ELSE "medium",
     actualMinutes |-> 0,
     tags |-> IF "tags" \in DOMAIN dto THEN dto.tags ELSE <<>>,
     updatedAt |-> t,
     completedAt |-> NoDate]

createTask(ts, id, dto, t) ==
    [tasks |-> Append(ts, NewTask(id, dto, t)), task |-> NewTask(id, dto, t)]

\* mutant of CompletedAtAfter: every update to done stamps completedAt
CompletedAtAfter_Restamps(task, dto, t) ==
    IF "status" \in DOMAIN dto /\ dto.status = "done"
    THEN t
    ELSE task.completedAt

\* updateTask: the completedAt of the updated task
CompletedAtAfter(task, dto, t) ==
    IF "status" \in DOMAIN dto /\ dto.status = "done" /\ task.completedAt = NoDate
    THEN t
    ELSE task.completedAt

\* mutant of UpdatedTask: an update of the status clears the tracked minutes
UpdatedTask_ClearsMinutes(task, dto, t) ==
    [Spread(task, dto) EXCEPT
        !.updatedAt = t,
        !.completedAt = CompletedAtAfter(task, dto, t),
        !.actualMinutes = IF "status" \in DOMAIN dto THEN 0 ELSE @]

\* updateTask: the updated task object
UpdatedTask(task, dto, t) ==
    [Spread(task, dto) EXCEPT !.updatedAt = t,
                              !.completedAt = CompletedAtAfter(task, dto, t)]

\* mutant of updateTask: an unknown id is stored as a new task
updateTask_Upserts(ts, id, dto, t) ==
    LET index == FindIndex(ts, id) IN
    IF index = 0
    THEN [err |-> "none",
          tasks |-> Append(ts, NewTask(id, [title |-> ""], t)),
          task |-> <<NewTask(id, [title |-> ""], t)>>]
    ELSE [err |-> "none",
          tasks |-> [ts EXCEPT ![index] = UpdatedTask(ts[index], dto, t)],
          task |-> <<UpdatedTask(ts[index], dto, t)>>]

\* updateTask: throws when the id is unknown, else stores the merged task
updateTask(ts, id, dto, t) ==
    LET index == FindIndex(ts, id) IN
    IF index = 0
    THEN [err |-> "Task not found", tasks |-> ts, task |-> <<>>]
    ELSE [err |-> "none",
          tasks |-> [ts EXCEPT ![index] = UpdatedTask(ts[index], dto, t)],
          task |-> <<UpdatedTask(ts[index], dto, t)>>]

\* deleteTask
deleteTask(ts, id) ==
    LET keep(task) == task.id # id IN SelectSeq(ts, keep)

\* getSessionsByTask
getSessionsByTask(ss, taskId) ==
    LET keep(session) == session.taskId = taskId IN SelectSeq(ss, keep)

\* createSession: the new session object
NewSession(id, dto, t) ==
    [id |-> id,
     taskId |-> dto.taskId,
     startedAt |-> t,
     endedAt |-> NoDate,
     type |-> IF "type" \in DOMAIN dto THEN dto.type ELSE "pomodoro",
     durationMinutes |-> 0,
     completed |-> FALSE,
     achievement |-> NoText,
     pending |-> NoText]

createSession(ss, dto, t) ==
    [sessions |-> Append(ss, NewSession(Len(ss) + 1, dto, t)),
     session |-> NewSession(Len(ss) + 1, dto, t)]

\* updateSession: whether the owning task is credited
CreditsTask(dto) ==
    "durationMinutes" \in DOMAIN dto /\ dto.durationMinutes # 0

\* mutant of CreditedTasks: the minutes replace the total
CreditedTasks_Overwrite(ts, taskId, minutes, t) ==
    LET task == getTaskById(ts, taskId) IN
    IF task = <<>> THEN ts
    ELSE updateTask(ts, task[1].id, [actualMinutes |-> minutes], t).tasks

\* updateSession: the tasks after crediting the owning task
CreditedTasks(ts, taskId, minutes, t) ==
    LET task == getTaskById(ts, taskId) IN
    IF task = <<>> THEN ts
    ELSE updateTask(ts, task[1].id,
                    [actualMinutes |-> task[1].actualMinutes + minutes], t).tasks

\* mutant of updateSession: crediting moves the owning task back to todo
updateSession_ReopensTask(ss, ts, id, dto, t) ==
    LET index == FindIndex(ss, id) IN
    IF index = 0
    THEN [err |-> "Session not found", sessions |-> ss, tasks |-> ts]
    ELSE LET updatedSession == Spread(ss[index], dto)
             owner == getTaskById(ts, updatedSession.taskId)
         IN
         [err |-> "none",
          sessions |-> [ss EXCEPT ![index] = updatedSession],
          tasks |-> IF CreditsTask(dto) /\ owner # <<>>
                    THEN updateTask(ts, owner[1].id,
                                    [actualMinutes |-> owner[1].actualMinutes
                                                       + dto.durationMinutes,
                                     status |-> "todo"], t).tasks
                    ELSE ts]

\* updateSession: throws when the id is unknown, else merges the DTO into
\* the session and credits durationMinutes to the owning task
updateSession(ss, ts, id, dto, t) ==
    LET index == FindIndex(ss, id) IN
    IF index = 0
    THEN [err |-> "Session not found", sessions |-> ss, tasks |-> ts]
    ELSE LET updatedSession == Spread(ss[index], dto) IN
         [err |-> "none",
          sessions |-> [ss EXCEPT ![index] = updatedSession],
          tasks |-> IF CreditsTask(dto)
                    THEN CreditedTasks(ts, updatedSession.taskId,
                                       dto.durationMinutes, t)
                    ELSE ts]

\* getActiveSession: the first session that is neither ended nor completed
IsActive(session) == session.endedAt = NoDate /\ ~session.completed

getActiveSession(ss) ==
    IF \E i \in 1..Len(ss) : IsActive(ss[i])
    THEN <<ss[CHOOSE i \in 1..Len(ss) :
                /\ IsActive(ss[i])
                /\ \A j \in 1..(i - 1) : ~IsActive(ss[j])]>>
    ELSE <<>>

\* String.prototype.trim: a text is a sequence of characters
Whitespace == {" ", "\t", "\n"}

RECURSIVE TrimStart(_)
TrimStart(text) ==
    IF text # <<>> /\ Head(text) \in Whitespace
    THEN TrimStart(Tail(text))
    ELSE text

RECURSIVE TrimEnd(_)
TrimEnd(text) ==
    IF text # <<>> /\ text[Len(text)] \in Whitespace
    THEN TrimEnd(SubSeq(text, 1, Len(text) - 1))
    ELSE text

\* mutant of Trim: only the leading whitespace is removed
Trim_StartOnly(text) == TrimStart(text)

Trim(text) == TrimEnd(TrimStart(text))

\* createTasksFromNote: the DTO given to createTask for a title
NoteTaskDto(noteId, title) ==
    [noteId |-> noteId, title |-> Trim(title), priority |-> "medium"]

\* createTasksFromNote: one createTask per title, in order; id is the id of
\* the first task created
RECURSIVE createTasksFromNote(_, _, _, _, _)
createTasksFromNote(ts, id, noteId, taskTitles, t) ==
    IF taskTitles = <<>>
    THEN [tasks |-> ts, created |-> <<>>]
    ELSE LET first == createTask(ts, id, NoteTaskDto(noteId, Head(taskTitles)), t)
             rest == createTasksFromNote(first.tasks, id + 1, noteId,
                                         Tail(taskTitles), t)
         IN [tasks |-> rest.tasks, created |-> <<first.task>> \o rest.created]

\* the number of tasks with the status
CountStatus(ts, status) ==
    LET has(task) == task.status = status IN Len(SelectSeq(ts, has))

\* mutant of getTaskStats: total is the sum of the three counts
getTaskStats_SumsCounts(ts) ==
    [total |-> CountStatus(ts, "todo") + CountStatus(ts, "in_progress")
                   + CountStatus(ts, "done"),
     todo |-> CountStatus(ts, "todo"),
     inProgress |-> CountStatus(ts, "in_progress"),
     done |-> CountStatus(ts, "done")]

\* getTaskStats
getTaskStats(ts) ==
    [total |-> Len(ts),
     todo |-> CountStatus(ts, "todo"),
     inProgress |-> CountStatus(ts, "in_progress"),
     done |-> CountStatus(ts, "done")]

----------------------------------------------------------------------------
(***************************************************************************)
(* useTaskViewModel: the atoms and the handlers.  The service keeps its    *)
(* data in localStorage and its promises are already resolved, so a        *)
(* handler runs to its end before the next timer callback or user event.   *)
(***************************************************************************)

\* pomodoroTimerAtom, as constructed
InitialTimerState ==
    [isRunning |-> FALSE,
     isPaused |-> FALSE,
     timeRemaining |-> DefaultTimerSeconds,
     totalTime |-> DefaultTimerSeconds,
     sessionType |-> "pomodoro",
     completedPomodoros |-> 0]

\* how a call ended: the error it threw ("none" when it returned) and whether
\* it returned null
Returned(op, err) == [op |-> op, err |-> err, null |-> FALSE]
ReturnedNull(op) == [op |-> op, err |-> "none", null |-> TRUE]

\* how getTaskStats ended: with the counts it returned
ReturnedStats(stats) ==
    [op |-> "getTaskStats", err |-> "none", null |-> FALSE, stats |-> stats]

\* how a call that returns tasks ended: with the tasks it returned
ReturnedTasks(op, returned) ==
    [op |-> op, err |-> "none", null |-> FALSE, tasks |-> returned]

Init ==
    /\ now = 0
    /\ tasks = <<>>
    /\ sessions = <<>>
    /\ nextTaskId = 1
    /\ tasksAtom = <<>>
    /\ activeTaskId = NoId
    /\ currentSession = <<>>
    /\ timerState = InitialTimerState
    /\ pomodoroSettings \in [workDuration : WorkDurations]
    /\ taskSessionsAtom = <<>>
    /\ last = Returned("init", "none")
    /\ ticks = 0
    /\ call = <<>>
    /\ inFlight = <<>>

\* setTasks((prev) => prev.map((task) => (task.id === id ? updated : task)))
ReplaceTask(atom, id, updated) ==
    [i \in 1..Len(atom) |-> IF atom[i].id = id THEN updated ELSE atom[i]]

\* the wall clock advances
AdvanceClock ==
    /\ now < MaxAdvances * ClockStep
    /\ now' = now + ClockStep
    /\ last' = Returned("clock", "none")
    /\ UNCHANGED <<storeVars, atomVars, ticks, call,
                   inFlight>>

\* loadTasks, run on mount: the page is (re)loaded, the atoms that are not
\* stored are constructed again and the stored data is read back
LoadTasks ==
    LET activeSession == getActiveSession(sessions) IN
    /\ tasksAtom' = tasks
    /\ timerState' = InitialTimerState
    /\ taskSessionsAtom' = <<>>
    /\ currentSession' = activeSession
    /\ activeTaskId' = IF activeSession # <<>> THEN activeSession[1].taskId ELSE NoId
    /\ last' = Returned("loadTasks", "none")
    /\ UNCHANGED <<now, storeVars, pomodoroSettings, ticks, call,
                   inFlight>>

\* createTask
CreateTask(dto) ==
    LET created == createTask(tasks, nextTaskId, dto, now) IN
    /\ nextTaskId <= MaxTasks
    /\ tasks' = created.tasks
    /\ nextTaskId' = nextTaskId + 1
    /\ tasksAtom' = Append(tasksAtom, created.task)
    /\ last' = Returned("createTask", "none")
    /\ UNCHANGED <<now, sessions, activeTaskId, currentSession, timerState,
                   pomodoroSettings, taskSessionsAtom, ticks, call,
                   inFlight>>

\* createTasksFromNote
CreateTasksFromNote(noteId, taskTitles) ==
    LET made == createTasksFromNote(tasks, nextTaskId, noteId, taskTitles, now)
    IN
    /\ nextTaskId + Len(taskTitles) - 1 <= MaxNoteTasks
    /\ tasks' = made.tasks
    /\ nextTaskId' = nextTaskId + Len(taskTitles)
    /\ tasksAtom' = tasksAtom \o made.created
    /\ last' = ReturnedTasks("createTasksFromNote", made.created)
    /\ UNCHANGED <<now, sessions, activeTaskId, currentSession, timerState,
                   pomodoroSettings, taskSessionsAtom, ticks, call,
                   inFlight>>

\* the view model's updateTask, with the name of the calling handler
UpdateTaskAs(op, id, dto) ==
    LET updated == updateTask(tasks, id, dto, now) IN
    /\ tasks' = updated.tasks
    /\ tasksAtom' = IF updated.err = "none"
                    THEN ReplaceTask(tasksAtom, id, updated.task[1])
                    ELSE tasksAtom
    /\ last' = Returned(op, updated.err)
    /\ UNCHANGED <<now, sessions, nextTaskId, activeTaskId, currentSession,
                   timerState, pomodoroSettings, taskSessionsAtom, ticks, call,
                   inFlight>>

\* updateTask
UpdateTask(id, dto) == UpdateTaskAs("updateTask", id, dto)

\* mutant of CompleteTask: completing a task also resets the countdown
CompleteTask_ResetsTimer(id) ==
    LET updated == updateTask(tasks, id, [status |-> "done"], now) IN
    /\ tasks' = updated.tasks
    /\ tasksAtom' = IF updated.err = "none"
                    THEN ReplaceTask(tasksAtom, id, updated.task[1])
                    ELSE tasksAtom
    /\ timerState' = IF updated.err = "none"
                     THEN InitialTimerState
                     ELSE timerState
    /\ last' = Returned("completeTask", updated.err)
    /\ UNCHANGED <<now, sessions, nextTaskId, activeTaskId, currentSession,
                   pomodoroSettings, taskSessionsAtom, ticks, call,
                   inFlight>>

\* completeTask
CompleteTask(id) == UpdateTaskAs("completeTask", id, [status |-> "done"])

\* mutant of DeleteTask: the open sessions of the task are ended with it
DeleteTask_EndsSessions(id) ==
    LET keep(task) == task.id # id IN
    /\ tasks' = deleteTask(tasks, id)
    /\ tasksAtom' = SelectSeq(tasksAtom, keep)
    /\ sessions' = [j \in 1..Len(sessions) |->
                       IF sessions[j].taskId = id /\ sessions[j].endedAt = NoDate
                       THEN [sessions[j] EXCEPT !.endedAt = now]
                       ELSE sessions[j]]
    /\ last' = Returned("deleteTask", "none")
    /\ UNCHANGED <<now, nextTaskId, activeTaskId, currentSession,
                   timerState, pomodoroSettings, taskSessionsAtom, ticks, call,
                   inFlight>>

\* deleteTask
DeleteTask(id) ==
    LET keep(task) == task.id # id IN
    /\ tasks' = deleteTask(tasks, id)
    /\ tasksAtom' = SelectSeq(tasksAtom, keep)
    /\ last' = Returned("deleteTask", "none")
    /\ UNCHANGED <<now, sessions, nextTaskId, activeTaskId, currentSession,
                   timerState, pomodoroSettings, taskSessionsAtom, ticks, call,
                   inFlight>>

\* getTaskById: a read of the service, null is NoId
GetTaskById(id) ==
    /\ last' = IF getTaskById(tasks, id) = <<>>
               THEN ReturnedNull("getTaskById")
               ELSE Returned("getTaskById", "none")
    /\ UNCHANGED <<now, storeVars, atomVars, ticks, call,
                   inFlight>>

\* getTaskStats: a read of the service, whose result is kept in last
GetTaskStats ==
    /\ last' = ReturnedStats(getTaskStats(tasks))
    /\ UNCHANGED <<now, storeVars, atomVars, ticks, call,
                   inFlight>>

\* pomodoroSettings.workDuration * 60.  workDuration is a number of minutes;
\* the work durations of the model are the fractions n/WorkDurationDenominator
\* of a minute, held as n
WorkSeconds(settings) ==
    (settings.workDuration * SecondsPerMinute) \div WorkDurationDenominator

\* mutant of StartedTimerState: the countdown starts from the default time
StartedTimerState_Default(settings, timer) ==
    [isRunning |-> TRUE,
     isPaused |-> FALSE,
     timeRemaining |-> DefaultTimerSeconds,
     totalTime |-> DefaultTimerSeconds,
     sessionType |-> "pomodoro",
     completedPomodoros |-> timer.completedPomodoros]

\* startTask: the timer state it sets
StartedTimerState(settings, timer) ==
    [isRunning |-> TRUE,
     isPaused |-> FALSE,
     timeRemaining |-> WorkSeconds(settings),
     totalTime |-> WorkSeconds(settings),
     sessionType |-> "pomodoro",
     completedPomodoros |-> timer.completedPomodoros]

\* mutant of StartTask: a startTask while a session is current is rejected
StartTask_RejectsWhenOpen(taskId) ==
    LET updated == updateTask(tasks, taskId, [status |-> "in_progress"], now)
        created == createSession(sessions, [taskId |-> taskId], now)
        err == IF currentSession # <<>> THEN "Session already open"
               ELSE updated.err
    IN
    /\ Len(sessions) < MaxSessions
    /\ last' = Returned("startTask", err)
    /\ IF err # "none"
       THEN UNCHANGED <<now, storeVars, atomVars, ticks, call,
                   inFlight>>
       ELSE /\ tasks' = updated.tasks
            /\ tasksAtom' = ReplaceTask(tasksAtom, taskId, updated.task[1])
            /\ sessions' = created.sessions
            /\ currentSession' = <<created.session>>
            /\ activeTaskId' = taskId
            /\ timerState' = StartedTimerState(pomodoroSettings, timerState)
            /\ ticks' = 0
            /\ UNCHANGED <<now, nextTaskId, pomodoroSettings, taskSessionsAtom,
                           call,
                   inFlight>>

\* startTask
StartTask(taskId) ==
    LET updated == updateTask(tasks, taskId, [status |-> "in_progress"], now)
        created == createSession(sessions, [taskId |-> taskId], now)
    IN
    /\ Len(sessions) < MaxSessions
    /\ last' = Returned("startTask", updated.err)
    /\ IF updated.err # "none"
       THEN UNCHANGED <<now, storeVars, atomVars, ticks, call,
                   inFlight>>
       ELSE /\ tasks' = updated.tasks
            /\ tasksAtom' = ReplaceTask(tasksAtom, taskId, updated.task[1])
            /\ sessions' = created.sessions
            /\ currentSession' = <<created.session>>
            /\ activeTaskId' = taskId
            /\ timerState' = StartedTimerState(pomodoroSettings, timerState)
            /\ ticks' = 0
            /\ UNCHANGED <<now, nextTaskId, pomodoroSettings, taskSessionsAtom,
                           call,
                   inFlight>>

\* togglePause
TogglePause ==
    /\ timerState' = [timerState EXCEPT !.isPaused = ~timerState.isPaused]
    /\ last' = Returned("togglePause", "none")
    /\ UNCHANGED <<now, storeVars, tasksAtom, activeTaskId, currentSession,
                   pomodoroSettings, taskSessionsAtom, ticks, call,
                   inFlight>>

\* mutant of DurationMinutes: rounds to the nearest minute
DurationMinutes_Rounds(startedAt, stoppedAt) ==
    ((stoppedAt - startedAt) \div MsPerSecond + SecondsPerMinute \div 2)
        \div SecondsPerMinute

\* stopTask: the minutes between startedAt and the stop
DurationMinutes(startedAt, stoppedAt) ==
    ((stoppedAt - startedAt) \div MsPerSecond) \div SecondsPerMinute

\* mutant of StopDto: completed is whether the countdown has advanced
StopDto_Advanced(session, timer, achievement, pending, t) ==
    [endedAt |-> t,
     durationMinutes |-> DurationMinutes(session.startedAt, t),
     completed |-> timer.timeRemaining < timer.totalTime,
     achievement |-> achievement,
     pending |-> pending]

\* stopTask: the DTO given to updateSession
StopDto(session, timer, achievement, pending, t) ==
    [endedAt |-> t,
     durationMinutes |-> DurationMinutes(session.startedAt, t),
     completed |-> timer.timeRemaining <= 0,
     achievement |-> achievement,
     pending |-> pending]

\* mutant of StoppedTimerState: the reset leaves isRunning as it is
StoppedTimerState_KeepsRunning(settings, prev) ==
    [prev EXCEPT !.isPaused = FALSE,
                 !.timeRemaining = WorkSeconds(settings)]

\* stopTask: the timer state it sets
StoppedTimerState(settings, prev) ==
    [prev EXCEPT !.isRunning = FALSE,
                 !.isPaused = FALSE,
                 !.timeRemaining = WorkSeconds(settings)]

\* mutant of StopNothing: the timer is reset although nothing is closed
StopNothing_Resets ==
    /\ last' = Returned("stopTask", "none")
    /\ timerState' = StoppedTimerState(pomodoroSettings, timerState)
    /\ UNCHANGED <<now, storeVars, tasksAtom, activeTaskId, currentSession,
                   pomodoroSettings, taskSessionsAtom, ticks, call,
                   inFlight>>

\* stopTask, when currentSession is null: an early return
StopNothing ==
    /\ last' = Returned("stopTask", "none")
    /\ UNCHANGED <<now, storeVars, atomVars, ticks, call,
                   inFlight>>

\* stopTask, when there is a current session
StopSession(session, achievement, pending) ==
    LET closed == updateSession(sessions, tasks, session.id,
                      StopDto(session, timerState, achievement, pending, now),
                      now)
    IN
    /\ last' = Returned("stopTask", closed.err)
    /\ IF closed.err # "none"
       THEN UNCHANGED <<now, storeVars, atomVars, ticks, call,
                   inFlight>>
       ELSE /\ sessions' = closed.sessions
            /\ tasks' = closed.tasks
            /\ taskSessionsAtom' =
                   IF activeTaskId # NoId
                   THEN getSessionsByTask(closed.sessions, activeTaskId)
                   ELSE taskSessionsAtom
            /\ currentSession' = <<>>
            /\ timerState' = StoppedTimerState(pomodoroSettings, timerState)
            /\ ticks' = 0
            /\ UNCHANGED <<now, nextTaskId, tasksAtom, activeTaskId,
                           pomodoroSettings, call,
                   inFlight>>

\* stopTask
StopTask(achievement, pending) ==
    IF currentSession = <<>>
    THEN StopNothing
    ELSE StopSession(currentSession[1], achievement, pending)

\* updatePomodoroSettings
UpdatePomodoroSettings(settings) ==
    /\ pomodoroSettings' = Spread(pomodoroSettings, settings)
    /\ last' = Returned("updatePomodoroSettings", "none")
    /\ UNCHANGED <<now, storeVars, tasksAtom, activeTaskId, currentSession,
                   timerState, taskSessionsAtom, ticks, call,
                   inFlight>>

\* mutant of TickedTimerState: the countdown completes one callback early
TickedTimerState_Early(prev) ==
    LET newTime == prev.timeRemaining - 1 IN
    IF newTime <= 1
    THEN [prev EXCEPT !.isRunning = FALSE,
                      !.timeRemaining = 0,
                      !.completedPomodoros = prev.completedPomodoros + 1]
    ELSE [prev EXCEPT !.timeRemaining = newTime]

\* the countdown effect: the state after one callback of the interval
TickedTimerState(prev) ==
    LET newTime == prev.timeRemaining - 1 IN
    IF newTime <= 0
    THEN [prev EXCEPT !.isRunning = FALSE,
                      !.timeRemaining = 0,
                      !.completedPomodoros = prev.completedPomodoros + 1]
    ELSE [prev EXCEPT !.timeRemaining = newTime]

\* mutant of TickEnabled: the interval is kept while paused
TickEnabled_IgnoresPause(timer) == timer.isRunning

\* the countdown effect: the interval exists while running and not paused
TickEnabled(timer) == timer.isRunning /\ ~timer.isPaused

\* mutant of Tick: the interval waits while a call is in flight
Tick_WaitsForCalls ==
    /\ inFlight = <<>>
    /\ TickEnabled(timerState)
    /\ timerState' = TickedTimerState(timerState)
    /\ last' = Returned("tick", "none")
    /\ ticks' = ticks + 1
    /\ UNCHANGED <<now, storeVars, tasksAtom, activeTaskId, currentSession,
                   pomodoroSettings, taskSessionsAtom, call, inFlight>>

\* the countdown effect: one callback of the interval
Tick ==
    /\ TickEnabled(timerState)
    /\ timerState' = TickedTimerState(timerState)
    /\ last' = Returned("tick", "none")
    /\ ticks' = ticks + 1
    /\ UNCHANGED <<now, storeVars, tasksAtom, activeTaskId, currentSession,
                   pomodoroSettings, taskSessionsAtom, call,
                   inFlight>>

----------------------------------------------------------------------------
(***************************************************************************)
(* startTask and stopTask await by await.  Each await of a handler ends a  *)
(* step, so that the states between its writes can be observed, and each   *)
(* write of the service to localStorage can throw.  The promises of the    *)
(* service are already resolved, so the continuation of a handler runs     *)
(* before the next callback of the interval and before the next user       *)
(* event: no other handler runs while call is not <<>>.                    *)
(***************************************************************************)

\* activeTaskAtom: the task of tasksAtom whose id is activeTaskId, or null
activeTask ==
    LET i == FindIndex(tasksAtom, activeTaskId)
    IN IF i = 0 THEN <<>> ELSE <<tasksAtom[i]>>

\* the open task panel renders the PomodoroTimer only for an active task
\* while the timer is running, and the timer renders Pause and Stop only
\* while it is running (otherwise a Start button)
StopOffered ==
    /\ activeTask # <<>>
    /\ timerState.isRunning

\* the error of a localStorage.setItem that throws
WriteError == "QuotaExceededError"

\* no handler is between two of its awaits
Idle == call = <<>>

\* a handler has reached an await
Pending(op) == [op |-> op, err |-> "pending", null |-> FALSE]

\* a startTask at the await pc
StartCall(pc, taskId, task, session) ==
    [op |-> "startTask", pc |-> pc, taskId |-> taskId, task |-> task,
     session |-> session]

\* a stopTask at the await pc
StopCall(pc, session, dto) ==
    [op |-> "stopTask", pc |-> pc, session |-> session, dto |-> dto]

\* mutant of Throws: a handler that throws stops the countdown
Throws_StopsCountdown(op, err) ==
    /\ last' = Returned(op, err)
    /\ call' = <<>>
    /\ UNCHANGED inFlight
    /\ timerState' = [timerState EXCEPT !.isRunning = FALSE]
    /\ UNCHANGED <<now, storeVars, tasksAtom, activeTaskId, currentSession,
                   pomodoroSettings, taskSessionsAtom, ticks>>

\* a handler throws: nothing but the error changes
Throws(op, err) ==
    /\ last' = Returned(op, err)
    /\ call' = <<>>
    /\ UNCHANGED <<now, storeVars, atomVars, ticks, inFlight>>

\* mutant of StartTaskUpdate: the session is created before the status is
\* written
StartTaskUpdate_OpensSessionFirst(taskId, fails) ==
    LET updated == updateTask(tasks, taskId, [status |-> "in_progress"], now)
        created == createSession(sessions, [taskId |-> taskId], now)
    IN
    /\ Idle
    /\ UNCHANGED inFlight
    /\ Len(sessions) < MaxSessions
    /\ IF updated.err # "none"
       THEN Throws("startTask", updated.err)
       ELSE IF fails
       THEN Throws("startTask", WriteError)
       ELSE /\ sessions' = created.sessions
            /\ call' = StartCall("setTasks", taskId, updated.task[1],
                                 <<created.session>>)
            /\ last' = Pending("startTask")
            /\ UNCHANGED <<now, tasks, nextTaskId, atomVars, ticks>>

\* startTask, to the return of taskService.updateTask
StartTaskUpdate(taskId, fails) ==
    LET updated == updateTask(tasks, taskId, [status |-> "in_progress"], now)
    IN
    /\ Idle
    /\ UNCHANGED inFlight
    /\ Len(sessions) < MaxSessions
    /\ IF updated.err # "none"
       THEN Throws("startTask", updated.err)
       ELSE IF fails
       THEN Throws("startTask", WriteError)
       ELSE /\ tasks' = updated.tasks
            /\ call' = StartCall("setTasks", taskId, updated.task[1], <<>>)
            /\ last' = Pending("startTask")
            /\ UNCHANGED <<now, sessions, nextTaskId, atomVars, ticks>>

\* startTask, the setTasks of its updateTask
StartTaskSetTasks ==
    /\ ~Idle
    /\ UNCHANGED inFlight
    /\ call.op = "startTask"
    /\ call.pc = "setTasks"
    /\ tasksAtom' = ReplaceTask(tasksAtom, call.taskId, call.task)
    /\ call' = [call EXCEPT !.pc = "createSession"]
    /\ UNCHANGED <<now, storeVars, activeTaskId, currentSession, timerState,
                   pomodoroSettings, taskSessionsAtom, last, ticks>>

\* mutant of StartTaskCreateSession: a createSession that throws puts the
\* status of the task back
StartTaskCreateSession_RollsBack(fails) ==
    LET created == createSession(sessions, [taskId |-> call.taskId], now) IN
    /\ ~Idle
    /\ UNCHANGED inFlight
    /\ call.op = "startTask"
    /\ call.pc = "createSession"
    /\ IF fails
       THEN /\ tasks' = updateTask(tasks, call.taskId, [status |-> "todo"],
                                   now).tasks
            /\ last' = Returned("startTask", WriteError)
            /\ call' = <<>>
            /\ UNCHANGED <<now, sessions, nextTaskId, atomVars, ticks>>
       ELSE /\ sessions' = created.sessions
            /\ call' = StartCall("setState", call.taskId, call.task,
                                 <<created.session>>)
            /\ UNCHANGED <<now, tasks, nextTaskId, atomVars, last, ticks>>

\* startTask, to the return of taskService.createSession
StartTaskCreateSession(fails) ==
    LET created == createSession(sessions, [taskId |-> call.taskId], now) IN
    /\ ~Idle
    /\ UNCHANGED inFlight
    /\ call.op = "startTask"
    /\ call.pc = "createSession"
    /\ IF fails
       THEN Throws("startTask", WriteError)
       ELSE /\ sessions' = created.sessions
            /\ call' = StartCall("setState", call.taskId, call.task,
                                 <<created.session>>)
            /\ UNCHANGED <<now, tasks, nextTaskId, atomVars, last, ticks>>

\* startTask, its setCurrentSession, setActiveTaskId and setTimerState
StartTaskSetState ==
    /\ ~Idle
    /\ UNCHANGED inFlight
    /\ call.op = "startTask"
    /\ call.pc = "setState"
    /\ currentSession' = call.session
    /\ activeTaskId' = call.taskId
    /\ timerState' = StartedTimerState(pomodoroSettings, timerState)
    /\ ticks' = 0
    /\ last' = Returned("startTask", "none")
    /\ call' = <<>>
    /\ UNCHANGED <<now, storeVars, tasksAtom, pomodoroSettings,
                   taskSessionsAtom>>

\* updateSession: whether it goes on to update the owning task
UpdatesOwner(ts, session, dto) ==
    CreditsTask(dto) /\ getTaskById(ts, session.taskId) # <<>>

\* mutant of StopTaskUpdateSession: the current session is cleared and the
\* countdown reset as soon as the session is saved
StopTaskUpdateSession_ClearsFirst(achievement, pending, fails) ==
    LET session == currentSession[1]
        dto == StopDto(session, timerState, achievement, pending, now)
        closed == updateSession(sessions, tasks, session.id, dto, now)
    IN
    /\ Idle
    /\ UNCHANGED inFlight
    /\ currentSession # <<>>
    /\ IF closed.err # "none"
       THEN Throws("stopTask", closed.err)
       ELSE IF fails
       THEN Throws("stopTask", WriteError)
       ELSE /\ sessions' = closed.sessions
            /\ call' = StopCall(IF UpdatesOwner(tasks, session, dto)
                                THEN "updateTask" ELSE "setState",
                                session, dto)
            /\ last' = Pending("stopTask")
            /\ currentSession' = <<>>
            /\ timerState' = StoppedTimerState(pomodoroSettings, timerState)
            /\ UNCHANGED <<now, tasks, nextTaskId, tasksAtom, activeTaskId,
                           pomodoroSettings, taskSessionsAtom, ticks>>

\* stopTask with a current session, to the saveSessions of updateSession
StopTaskUpdateSession(achievement, pending, fails) ==
    LET session == currentSession[1]
        dto == StopDto(session, timerState, achievement, pending, now)
        closed == updateSession(sessions, tasks, session.id, dto, now)
    IN
    /\ Idle
    /\ UNCHANGED inFlight
    /\ currentSession # <<>>
    /\ IF closed.err # "none"
       THEN Throws("stopTask", closed.err)
       ELSE IF fails
       THEN Throws("stopTask", WriteError)
       ELSE /\ sessions' = closed.sessions
            /\ call' = StopCall(IF UpdatesOwner(tasks, session, dto)
                                THEN "updateTask" ELSE "setState",
                                session, dto)
            /\ last' = Pending("stopTask")
            /\ UNCHANGED <<now, tasks, nextTaskId, atomVars, ticks>>

\* stopTask, to the return of the updateTask of updateSession
StopTaskCreditTask(fails) ==
    /\ ~Idle
    /\ UNCHANGED inFlight
    /\ call.op = "stopTask"
    /\ call.pc = "updateTask"
    /\ IF fails
       THEN Throws("stopTask", WriteError)
       ELSE /\ tasks' = CreditedTasks(tasks, call.session.taskId,
                                      call.dto.durationMinutes, now)
            /\ call' = [call EXCEPT !.pc = "setState"]
            /\ UNCHANGED <<now, sessions, nextTaskId, atomVars, last, ticks>>

\* stopTask, its setSessions, setCurrentSession and setTimerState
StopTaskSetState ==
    /\ ~Idle
    /\ UNCHANGED inFlight
    /\ call.op = "stopTask"
    /\ call.pc = "setState"
    /\ taskSessionsAtom' =
           IF activeTaskId # NoId
           THEN getSessionsByTask(sessions, activeTaskId)
           ELSE taskSessionsAtom
    /\ currentSession' = <<>>
    /\ timerState' = StoppedTimerState(pomodoroSettings, timerState)
    /\ ticks' = 0
    /\ last' = Returned("stopTask", "none")
    /\ call' = <<>>
    /\ UNCHANGED <<now, storeVars, tasksAtom, activeTaskId, pomodoroSettings>>

\* createTask, completeTask or deleteTask when the saveTasks of the service
\* throws
WriteFails(op) ==
    /\ Idle
    /\ Throws(op, WriteError)

----------------------------------------------------------------------------
(***************************************************************************)
(* startTask and stopTask over a slow ITaskService.  The view model is     *)
(* written against the interface, whose methods return promises: with a    *)
(* service that answers late, the service does what it is asked when it    *)
(* is called and the handler goes on at some later time, after other       *)
(* handlers and callbacks of the interval have run.  A handler is the      *)
(* useCallback of the render in which it was called: what it reads after   *)
(* an await outside a functional update (pomodoroSettings,                 *)
(* timerState.completedPomodoros, activeTaskId) is the value of that       *)
(* render, kept in its closure.                                            *)
(***************************************************************************)

\* the closure of a startTask that waits for the promise of pc
SlowStartCall(pc, taskId, task, session, settings, completedPomodoros) ==
    [op |-> "startTask", pc |-> pc, taskId |-> taskId, task |-> task,
     session |-> session, pomodoroSettings |-> settings,
     timerState |-> [completedPomodoros |-> completedPomodoros]]

\* the closure of a stopTask that waits for the promise of pc
SlowStopCall(pc, session, active, settings, taskSessions) ==
    [op |-> "stopTask", pc |-> pc, session |-> session,
     activeTaskId |-> active, pomodoroSettings |-> settings,
     taskSessions |-> taskSessions]

\* the calls in flight without the k-th
Without(calls, k) ==
    [i \in 1..(Len(calls) - 1) |-> IF i < k THEN calls[i] ELSE calls[i + 1]]

\* the startTask calls in flight that have not created their session yet
StartsBeforeSession ==
    Cardinality({k \in 1..Len(inFlight) :
                    inFlight[k].op = "startTask"
                        /\ inFlight[k].pc = "updateTask"})

\* startTask, to the call of taskService.updateTask
SlowStartTask(taskId) ==
    LET updated == updateTask(tasks, taskId, [status |-> "in_progress"], now)
    IN
    /\ Len(inFlight) < MaxInFlight
    /\ Len(sessions) + StartsBeforeSession < MaxSessions
    /\ IF updated.err # "none"
       THEN /\ last' = Returned("startTask", updated.err)
            /\ UNCHANGED <<now, storeVars, atomVars, ticks, call, inFlight>>
       ELSE /\ tasks' = updated.tasks
            /\ inFlight' = Append(inFlight,
                   SlowStartCall("updateTask", taskId, updated.task[1], <<>>,
                                 pomodoroSettings,
                                 timerState.completedPomodoros))
            /\ last' = Pending("startTask")
            /\ UNCHANGED <<now, sessions, nextTaskId, atomVars, ticks, call>>

\* startTask, from the return of taskService.updateTask (its setTasks) to
\* the call of taskService.createSession
SlowStartTaskCreateSession(k) ==
    LET c == inFlight[k]
        created == createSession(sessions, [taskId |-> c.taskId], now)
    IN
    /\ c.op = "startTask"
    /\ c.pc = "updateTask"
    /\ tasksAtom' = ReplaceTask(tasksAtom, c.taskId, c.task)
    /\ sessions' = created.sessions
    /\ inFlight' = [inFlight EXCEPT ![k] =
                       [c EXCEPT !.pc = "createSession",
                                 !.session = <<created.session>>]]
    /\ UNCHANGED <<now, tasks, nextTaskId, activeTaskId, currentSession,
                   timerState, pomodoroSettings, taskSessionsAtom, last,
                   ticks, call>>

\* mutant of SlowStartTaskSetState: completedPomodoros is kept by a
\* functional update
SlowStartTaskSetState_KeepsCount(k) ==
    LET c == inFlight[k] IN
    /\ c.op = "startTask"
    /\ c.pc = "createSession"
    /\ currentSession' = c.session
    /\ activeTaskId' = c.taskId
    /\ timerState' = StartedTimerState(c.pomodoroSettings, timerState)
    /\ ticks' = 0
    /\ last' = Returned("startTask", "none")
    /\ inFlight' = Without(inFlight, k)
    /\ UNCHANGED <<now, storeVars, tasksAtom, pomodoroSettings,
                   taskSessionsAtom, call>>

\* startTask, from the return of taskService.createSession: its
\* setCurrentSession, setActiveTaskId and setTimerState
SlowStartTaskSetState(k) ==
    LET c == inFlight[k] IN
    /\ c.op = "startTask"
    /\ c.pc = "createSession"
    /\ currentSession' = c.session
    /\ activeTaskId' = c.taskId
    /\ timerState' = StartedTimerState(c.pomodoroSettings, c.timerState)
    /\ ticks' = 0
    /\ last' = Returned("startTask", "none")
    /\ inFlight' = Without(inFlight, k)
    /\ UNCHANGED <<now, storeVars, tasksAtom, pomodoroSettings,
                   taskSessionsAtom, call>>

\* stopTask with a current session, to the call of taskService.updateSession
SlowStopTask(achievement, pending) ==
    LET session == currentSession[1]
        dto == StopDto(session, timerState, achievement, pending, now)
        closed == updateSession(sessions, tasks, session.id, dto, now)
    IN
    /\ currentSession # <<>>
    /\ Len(inFlight) < MaxInFlight
    /\ IF closed.err # "none"
       THEN /\ last' = Returned("stopTask", closed.err)
            /\ UNCHANGED <<now, storeVars, atomVars, ticks, call, inFlight>>
       ELSE /\ sessions' = closed.sessions
            /\ tasks' = closed.tasks
            /\ inFlight' = Append(inFlight,
                   SlowStopCall("updateSession", session, activeTaskId,
                                pomodoroSettings, <<>>))
            /\ last' = Pending("stopTask")
            /\ UNCHANGED <<now, nextTaskId, atomVars, ticks, call>>

\* stopTask, from the return of taskService.updateSession to the call of
\* taskService.getSessionsByTask
SlowStopTaskGetSessions(k) ==
    LET c == inFlight[k] IN
    /\ c.op = "stopTask"
    /\ c.pc = "updateSession"
    /\ c.activeTaskId # NoId
    /\ inFlight' = [inFlight EXCEPT ![k] =
                       [c EXCEPT !.pc = "getSessionsByTask",
                                 !.taskSessions =
                                     getSessionsByTask(sessions,
                                                       c.activeTaskId)]]
    /\ UNCHANGED <<now, storeVars, atomVars, last, ticks, call>>

\* stopTask, from its last await: its setSessions, setCurrentSession and
\* setTimerState
SlowStopTaskSetState(k) ==
    LET c == inFlight[k] IN
    /\ c.op = "stopTask"
    /\ c.pc = IF c.activeTaskId # NoId THEN "getSessionsByTask"
              ELSE "updateSession"
    /\ taskSessionsAtom' = IF c.pc = "getSessionsByTask"
                           THEN c.taskSessions
                           ELSE taskSessionsAtom
    /\ currentSession' = <<>>
    /\ timerState' = StoppedTimerState(c.pomodoroSettings, timerState)
    /\ ticks' = 0
    /\ last' = Returned("stopTask", "none")
    /\ inFlight' = Without(inFlight, k)
    /\ UNCHANGED <<now, storeVars, tasksAtom, activeTaskId, pomodoroSettings,
                   call>>

----------------------------------------------------------------------------
(***************************************************************************)
(* Specifications.  The state of the whole engine with every timestamp it  *)
(* stores is too large to enumerate at once, so the engine is explored in  *)
(* parts that share the actions above:                                     *)
(*                                                                         *)
(*   Spec        every handler of the engine and the countdown, with all   *)
(*               calls made at one reading of the wall clock               *)
(*   SpecClock   starting, pausing, ticking and stopping while the wall    *)
(*               clock advances: the crediting of minutes                  *)
(*   SpecRepo    the task repository while the wall clock advances         *)
(*   SpecMinutes starting and stopping minutes apart while tasks are       *)
(*               completed and deleted                                     *)
(*   SpecNote    tasks made from the titles of a note                      *)
(*   SpecSteps   startTask and stopTask await by await, with writes that   *)
(*               throw, minutes apart                                      *)
(*   SpecFaults  the countdown next to the handlers await by await, with   *)
(*               writes that throw                                         *)
(*   SpecSlow    the countdown next to startTask and stopTask calls that   *)
(*               wait for a slow service and interleave                    *)
(*   SpecReload  the same, with reloads of the page                        *)
(*   SpecSlowMinutes  startTask and stopTask calls that wait for a slow    *)
(*               service, minutes apart                                    *)
(***************************************************************************)

NewTaskDto == [title |-> "Write spec"]

Next ==
    \/ CreateTask(NewTaskDto)
    \/ \E id \in TaskIds : CompleteTask(id)
    \/ \E id \in TaskIds : DeleteTask(id)
    \/ \E id \in TaskIds : StartTask(id)
    \/ TogglePause
    \/ \E args \in StopArgs : StopTask(args[1], args[2])
    \/ \E w \in WorkDurations : UpdatePomodoroSettings([workDuration |-> w])
    \/ Tick

Spec == Init /\ [][Next]_vars

NextClock ==
    \/ AdvanceClock
    \/ CreateTask(NewTaskDto)
    \/ \E id \in TaskIds : StartTask(id)
    \/ TogglePause
    \/ StopTask(NoText, NoText)
    \/ Tick

SpecClock == Init /\ [][NextClock]_vars

NextRepo ==
    \/ AdvanceClock
    \/ CreateTask(NewTaskDto)
    \/ \E id \in TaskIds, dto \in UpdateDtos : UpdateTask(id, dto)
    \/ \E id \in TaskIds : DeleteTask(id)
    \/ GetTaskStats
    \/ \E id \in TaskIds : GetTaskById(id)

SpecRepo == Init /\ [][NextRepo]_vars

\* the inputs of createTasksFromNote: note ids, titles with and without
\* surrounding whitespace, and lists of titles
NoteIds == {"n1", "n2"}
NoteTitles == {<<"B", "u", "y">>, <<" ", "C", " ", "B", " ">>, <<" ", "\t">>}
TitleLists == UNION {[1..n -> NoteTitles] : n \in 0..MaxNoteTitles}

\* tasks made from notes, next to tasks that are updated and deleted
NextNote ==
    \/ \E noteId \in NoteIds, taskTitles \in TitleLists :
          CreateTasksFromNote(noteId, taskTitles)
    \/ \E id \in 1..MaxNoteTasks : CompleteTask(id)
    \/ \E id \in 1..MaxNoteTasks : DeleteTask(id)

SpecNote == Init /\ [][NextNote]_vars

\* the wall clock advances by a whole minute
AdvanceMinute ==
    /\ now + 2 * ClockStep <= MaxAdvances * ClockStep
    /\ now' = now + 2 * ClockStep
    /\ last' = Returned("clock", "none")
    /\ UNCHANGED <<storeVars, atomVars, ticks, call,
                   inFlight>>

\* the tracked minutes: sessions are started and stopped minutes apart
\* while tasks are completed and deleted
NextMinutes ==
    \/ AdvanceMinute
    \/ CreateTask(NewTaskDto)
    \/ \E id \in TaskIds : StartTask(id)
    \/ StopTask(NoText, NoText)
    \/ \E id \in TaskIds : CompleteTask(id)
    \/ \E id \in TaskIds : DeleteTask(id)

SpecMinutes == Init /\ [][NextMinutes]_vars

\* the handlers await by await, with writes that throw, minutes apart
NextSteps ==
    \/ Idle /\ AdvanceMinute
    \/ Idle /\ CreateTask(NewTaskDto)
    \/ \E id \in TaskIds, fails \in BOOLEAN : StartTaskUpdate(id, fails)
    \/ StartTaskSetTasks
    \/ \E fails \in BOOLEAN : StartTaskCreateSession(fails)
    \/ StartTaskSetState
    \/ Idle /\ currentSession = <<>> /\ StopNothing
    \/ \E fails \in BOOLEAN : StopTaskUpdateSession(NoText, NoText, fails)
    \/ \E fails \in BOOLEAN : StopTaskCreditTask(fails)
    \/ StopTaskSetState

SpecSteps == Init /\ [][NextSteps]_vars

\* the calls whose write can throw without any await having been passed
FailingOps == {"createTask", "completeTask", "deleteTask"}

\* the countdown next to the handlers await by await, with writes that
\* throw, at one reading of the wall clock
NextFaults ==
    \/ Idle /\ CreateTask(NewTaskDto)
    \/ \E id \in TaskIds, fails \in BOOLEAN : StartTaskUpdate(id, fails)
    \/ StartTaskSetTasks
    \/ \E fails \in BOOLEAN : StartTaskCreateSession(fails)
    \/ StartTaskSetState
    \/ Idle /\ TogglePause
    \/ Idle /\ Tick
    \/ Idle /\ currentSession = <<>> /\ StopNothing
    \/ \E fails \in BOOLEAN : StopTaskUpdateSession(NoText, NoText, fails)
    \/ StopTaskSetState
    \/ Idle /\ \E id \in TaskIds : CompleteTask(id)
    \/ Idle /\ \E op \in FailingOps : WriteFails(op)

SpecFaults == Init /\ [][NextFaults]_vars

\* the slots of the calls in flight
InFlightSlots == 1..MaxInFlight

\* the countdown next to startTask and stopTask over a slow service, at one
\* reading of the wall clock
NextSlow ==
    \/ CreateTask(NewTaskDto)
    \/ \E id \in TaskIds : SlowStartTask(id)
    \/ \E k \in InFlightSlots :
          k <= Len(inFlight) /\ SlowStartTaskCreateSession(k)
    \/ \E k \in InFlightSlots :
          k <= Len(inFlight) /\ SlowStartTaskSetState(k)
    \/ SlowStopTask(NoText, NoText)
    \/ currentSession = <<>> /\ StopNothing
    \/ \E k \in InFlightSlots :
          k <= Len(inFlight) /\ SlowStopTaskGetSessions(k)
    \/ \E k \in InFlightSlots :
          k <= Len(inFlight) /\ SlowStopTaskSetState(k)
    \/ TogglePause
    \/ Tick

SpecSlow == Init /\ [][NextSlow]_vars

\* the same, with reloads of the page while no call is in flight
NextReload ==
    \/ NextSlow
    \/ inFlight = <<>> /\ LoadTasks

SpecReload == Init /\ [][NextReload]_vars

\* startTask and stopTask over a slow service, minutes apart
NextSlowMinutes ==
    \/ AdvanceMinute
    \/ CreateTask(NewTaskDto)
    \/ \E id \in TaskIds : SlowStartTask(id)
    \/ \E k \in InFlightSlots :
          k <= Len(inFlight) /\ SlowStartTaskCreateSession(k)
    \/ \E k \in InFlightSlots :
          k <= Len(inFlight) /\ SlowStartTaskSetState(k)
    \/ SlowStopTask(NoText, NoText)
    \/ currentSession = <<>> /\ StopNothing
    \/ \E k \in InFlightSlots :
          k <= Len(inFlight) /\ SlowStopTaskGetSessions(k)
    \/ \E k \in InFlightSlots :
          k <= Len(inFlight) /\ SlowStopTaskSetState(k)

SpecSlowMinutes == Init /\ [][NextSlowMinutes]_vars

----------------------------------------------------------------------------
(***************************************************************************)
(* The claims.                                                             *)
(***************************************************************************)

IsOpen(session) == session.endedAt = NoDate
IsClosed(session) == session.endedAt # NoDate

OpenSessions == {i \in 1..Len(sessions) : IsOpen(sessions[i])}

\* the sum of durationMinutes over the closed sessions of a task
RECURSIVE ClosedMinutes(_, _)
ClosedMinutes(ss, taskId) ==
    IF ss = <<>> THEN 0
    ELSE (IF Head(ss).taskId = taskId /\ IsClosed(Head(ss))
          THEN Head(ss).durationMinutes ELSE 0)
         + ClosedMinutes(Tail(ss), taskId)

\* C1: in every state at most one stored session is open (has no endedAt).
C1_AtMostOneOpenSession == Cardinality(OpenSessions) <= 1

IsStored(id) == FindIndex(tasks, id) # 0

\* C3: a task is created without completedAt; an update leaves an unset
\* completedAt unset unless it makes the status done, and then stamps it
\* with the time of the update; a completedAt that is set is never changed
\* or cleared by an update.
C3_CompletedAtSetOnce ==
    [][\A i \in 1..Len(tasks') :
          LET after == tasks'[i]
              k == FindIndex(tasks, after.id)
          IN IF k = 0
             THEN after.completedAt = NoDate
             ELSE IF tasks[k].completedAt # NoDate
                  THEN after.completedAt = tasks[k].completedAt
                  ELSE after.completedAt =
                           IF after.status = "done" THEN now ELSE NoDate
      ]_vars

\* a task that became done and was updated to done again at a later time
C3_Witness ==
    \E i \in 1..Len(tasks) :
        /\ tasks[i].status = "done"
        /\ tasks[i].completedAt # NoDate
        /\ tasks[i].updatedAt > tasks[i].completedAt
        /\ last = Returned("updateTask", "none")

\* the stored task with the id
TaskOf(ts, id) == ts[FindIndex(ts, id)]

\* the step is a stopTask that returned, called with a current session
StopsCurrentSession ==
    /\ currentSession # <<>>
    /\ last' = Returned("stopTask", "none")

\* C4: when no session is open, a startTask(t) that returns leaves the
\* countdown running and not paused with timeRemaining = totalTime =
\* workDuration*60 of the settings of that moment, leaves task t in_progress,
\* and leaves exactly one open session, of type pomodoro and of task t.
C4_StartTaskPostcondition ==
    [][\A t \in TaskIds :
          (/\ OpenSessions = {}
           /\ last' = Returned("startTask", "none")
           /\ StartTask(t)) =>
              /\ timerState'.isRunning
              /\ ~timerState'.isPaused
              /\ timerState'.timeRemaining = WorkSeconds(pomodoroSettings)
              /\ timerState'.totalTime = WorkSeconds(pomodoroSettings)
              /\ timerState'.totalTime * WorkDurationDenominator
                     <= pomodoroSettings.workDuration * SecondsPerMinute
              /\ FindIndex(tasks', t) # 0
              /\ TaskOf(tasks', t).status = "in_progress"
              /\ LET open == {i \in 1..Len(sessions') : IsOpen(sessions'[i])} IN
                 /\ Cardinality(open) = 1
                 /\ \A i \in open : /\ sessions'[i].type = "pomodoro"
                                    /\ sessions'[i].taskId = t
      ]_vars

\* a second startTask, after the first session was stopped and the work
\* duration was changed
C4_Witness ==
    /\ last = Returned("startTask", "none")
    /\ Cardinality(OpenSessions) = 1
    /\ Len(sessions) = 2
    /\ timerState.isRunning
    /\ timerState.totalTime = WorkSeconds([workDuration |-> MaxWorkDuration])
    /\ timerState.timeRemaining = timerState.totalTime
    /\ timerState.completedPomodoros = 1

\* C5: after startTask the countdown completes on exactly the
\* (workDuration*60)-th callback that runs while it is not paused, and not
\* before; that callback sets isRunning = false and timeRemaining = 0 and
\* adds exactly 1 to completedPomodoros; a callback changes no task and no
\* session, so the session stays open and the task in_progress; no callback
\* runs once the countdown has completed.
C5_CountdownCompletesOnLastTick ==
    [][/\ timerState'.isRunning =>
            /\ ticks' < timerState'.totalTime
            /\ timerState'.timeRemaining = timerState'.totalTime - ticks'
       /\ last'.op = "tick" =>
            /\ timerState.isRunning
            /\ ~timerState.isPaused
            /\ UNCHANGED <<tasks, sessions, currentSession>>
            /\ IF ticks' = timerState.totalTime
               THEN timerState' =
                        [timerState EXCEPT
                            !.isRunning = FALSE,
                            !.timeRemaining = 0,
                            !.completedPomodoros =
                                timerState.completedPomodoros + 1]
               ELSE timerState' =
                        [timerState EXCEPT
                            !.timeRemaining = timerState.timeRemaining - 1]
      ]_vars

\* the countdown of the longest work duration has just completed, after a
\* pause, and its session is still open and its task in_progress
C5_Witness ==
    /\ last = Returned("tick", "none")
    /\ ~timerState.isRunning
    /\ timerState.timeRemaining = 0
    /\ timerState.totalTime = WorkSeconds([workDuration |-> MaxWorkDuration])
    /\ ticks = timerState.totalTime
    /\ timerState.completedPomodoros = 1
    /\ currentSession # <<>>
    /\ currentSession[1].id \in OpenSessions
    /\ FindIndex(tasks, currentSession[1].taskId) # 0
    /\ TaskOf(tasks, currentSession[1].taskId).status = "in_progress"

\* C6: a stopTask that returns, called with a current session, closes that
\* session with endedAt set and completed = (timeRemaining <= 0) as of the
\* call, stores the given achievement and pending on it, and leaves the
\* countdown not running, not paused, with timeRemaining = workDuration*60;
\* completed is true exactly when the countdown had completed.
C6_StopTaskClosesSession ==
    [][\A args \in StopArgs :
          (StopsCurrentSession /\ StopTask(args[1], args[2])) =>
              LET closed == sessions'[currentSession[1].id] IN
              /\ IsOpen(sessions[currentSession[1].id])
              /\ closed.endedAt = now
              /\ IsClosed(closed)
              /\ closed.completed = (timerState.timeRemaining <= 0)
              /\ closed.completed = (ticks = timerState.totalTime)
              /\ closed.achievement = args[1]
              /\ closed.pending = args[2]
              /\ ~timerState'.isRunning
              /\ ~timerState'.isPaused
              /\ timerState'.timeRemaining = WorkSeconds(pomodoroSettings)
              /\ currentSession' = <<>>
      ]_vars

\* a completed countdown was stopped with texts, and a later countdown was
\* stopped early
C6_Witness ==
    /\ last = Returned("stopTask", "none")
    /\ Len(sessions) = 2
    /\ sessions[1].completed
    /\ sessions[1].achievement = "Wrote spec"
    /\ sessions[1].pending = "Review"
    /\ IsClosed(sessions[2])
    /\ ~sessions[2].completed
    /\ ~timerState.isRunning
    /\ timerState.timeRemaining # timerState.totalTime

\* C7: the durationMinutes that stopTask stores is the number of whole
\* minutes of the wall clock between the session's startedAt and the stop,
\* rounded down, whatever callbacks and pauses happened in between, and is
\* what the owning task is credited; a stop less than a minute after the
\* start stores 0 and leaves every task unchanged.
C7_DurationIsWholeElapsedMinutes ==
    [][StopsCurrentSession =>
          LET closed == sessions'[currentSession[1].id]
              elapsed == now - currentSession[1].startedAt
              minutes == closed.durationMinutes
              msPerMinute == MsPerSecond * SecondsPerMinute
              owner == FindIndex(tasks, closed.taskId)
          IN /\ currentSession[1].startedAt = sessions[closed.id].startedAt
             /\ minutes >= 0
             /\ minutes * msPerMinute <= elapsed
             /\ elapsed < (minutes + 1) * msPerMinute
             /\ elapsed < msPerMinute => (minutes = 0 /\ tasks' = tasks)
             /\ owner # 0 =>
                   tasks'[owner].actualMinutes =
                       tasks[owner].actualMinutes + minutes
      ]_vars

\* a countdown that completed was stopped after a minute and a half, and a
\* later one was stopped within the minute
C7_Witness ==
    /\ last = Returned("stopTask", "none")
    /\ Len(sessions) = 2
    /\ sessions[1].completed
    /\ sessions[1].durationMinutes = 1
    /\ sessions[1].endedAt - sessions[1].startedAt = 3 * ClockStep
    /\ IsClosed(sessions[2])
    /\ sessions[2].durationMinutes = 0
    /\ sessions[2].endedAt > sessions[2].startedAt
    /\ TaskOf(tasks, sessions[1].taskId).actualMinutes = 1

\* C8: a stopTask called when no session is open returns without an error
\* and changes neither the countdown, nor a session, nor a task.
C8_StopWithoutSessionIsNoOp ==
    [][(OpenSessions = {} /\ last'.op = "stopTask") =>
          /\ currentSession = <<>>
          /\ last'.err = "none"
          /\ UNCHANGED <<timerState, sessions, tasks>>
          /\ UNCHANGED <<currentSession, activeTaskId, taskSessionsAtom>>
      ]_vars

\* stopTask was called before any session was started, with the countdown
\* paused
C8_Witness ==
    /\ last = Returned("stopTask", "none")
    /\ sessions = <<>>
    /\ tasks # <<>>
    /\ timerState.isPaused
    /\ timerState = [InitialTimerState EXCEPT !.isPaused = TRUE]


\* the step is an update, a delete or a get of the task id
IsUpdateOf(id) == last'.op = "updateTask" /\ \E dto \in UpdateDtos : UpdateTask(id, dto)
IsDeleteOf(id) == last'.op = "deleteTask" /\ DeleteTask(id)
IsGetOf(id) == last'.op = "getTaskById" /\ GetTaskById(id)

\* C9, as claimed: update, delete and get of a task id that is not in the
\* repository each fail with a NotFound error and leave the repository
\* unchanged.
C9_UnknownIdFails ==
    [][\A id \in TaskIds :
          (~IsStored(id) /\ (IsUpdateOf(id) \/ IsDeleteOf(id) \/ IsGetOf(id))) =>
              /\ last'.err = "Task not found"
              /\ UNCHANGED <<tasks, sessions>>
      ]_vars

\* C9, as amended: update of a task id that is not in the repository fails
\* with the error "Task not found"; delete of such an id returns without an
\* error and get returns null without an error; all three leave the
\* repository unchanged.
C9_UnknownIdUpdateFails ==
    [][\A id \in TaskIds :
          ~IsStored(id) =>
              /\ IsUpdateOf(id) =>
                    last' = Returned("updateTask", "Task not found")
              /\ IsDeleteOf(id) => last' = Returned("deleteTask", "none")
              /\ IsGetOf(id) => last' = ReturnedNull("getTaskById")
              /\ (IsUpdateOf(id) \/ IsDeleteOf(id) \/ IsGetOf(id)) =>
                    UNCHANGED <<tasks, sessions, tasksAtom>>
      ]_vars

\* an update of an unknown id has thrown while a task is stored
C9_Witness ==
    /\ last = Returned("updateTask", "Task not found")
    /\ tasks # <<>>

\* C10: completeTask(t) of a stored task t can be called whatever the state
\* of the countdown, and sets the status of t to done; it changes neither
\* the countdown, nor the current session, nor a session, so an open session
\* of t stays open.
C10_CompleteTaskLeavesTimerAndSessions ==
    /\ [](\A t \in TaskIds : IsStored(t) => ENABLED CompleteTask(t))
    /\ [][\A t \in TaskIds :
            (IsStored(t) /\ last'.op = "completeTask" /\ CompleteTask(t)) =>
                /\ last'.err = "none"
                /\ FindIndex(tasks', t) # 0
                /\ TaskOf(tasks', t).status = "done"
                /\ UNCHANGED <<timerState, currentSession, sessions>>
                /\ \A i \in 1..Len(tasks) :
                      tasks[i].id # t => tasks'[i] = tasks[i]
        ]_vars

\* a task was completed while its countdown was paused midway and its
\* session was open
C10_Witness ==
    /\ last = Returned("completeTask", "none")
    /\ timerState.isRunning
    /\ timerState.isPaused
    /\ ticks > 0
    /\ currentSession # <<>>
    /\ currentSession[1].id \in OpenSessions
    /\ FindIndex(tasks, currentSession[1].taskId) # 0
    /\ TaskOf(tasks, currentSession[1].taskId).status = "done"

\* C11: togglePause negates isPaused and changes no other field of the
\* countdown and no session; a callback of the interval runs only while the
\* countdown is running and not paused, so while it is paused no callback
\* decrements timeRemaining.
C11_TogglePauseOnlyFlipsIsPaused ==
    [][/\ last'.op = "togglePause" =>
            /\ timerState'.isPaused = ~timerState.isPaused
            /\ timerState'.isRunning = timerState.isRunning
            /\ timerState'.timeRemaining = timerState.timeRemaining
            /\ timerState'.totalTime = timerState.totalTime
            /\ timerState'.sessionType = timerState.sessionType
            /\ timerState'.completedPomodoros = timerState.completedPomodoros
            /\ UNCHANGED <<sessions, currentSession, tasks>>
       /\ last'.op = "tick" => (timerState.isRunning /\ ~timerState.isPaused)
       /\ (timerState.isPaused /\ timerState'.isPaused) =>
            timerState'.timeRemaining = timerState.timeRemaining
      ]_vars

\* the countdown was paused midway, resumed, and paused again after one
\* more callback
C11_Witness ==
    /\ last = Returned("togglePause", "none")
    /\ timerState.isRunning
    /\ timerState.isPaused
    /\ ticks >= 2
    /\ timerState.timeRemaining = timerState.totalTime - ticks
    /\ currentSession # <<>>

\* C12: the actualMinutes of every stored task is a non-negative integer; it
\* never decreases from one state to the next; and it changes only in a step
\* that closes a session of the task, by the durationMinutes of that close.
C12_ActualMinutesOnlyGrowByClosing ==
    [][/\ \A i \in 1..Len(tasks') : tasks'[i].actualMinutes \in Nat
       /\ \A i \in 1..Len(tasks') :
             FindIndex(tasks, tasks'[i].id) = 0 => tasks'[i].actualMinutes = 0
       /\ \A i \in 1..Len(tasks) :
             LET k == FindIndex(tasks', tasks[i].id)
                 before == tasks[i].actualMinutes
             IN k # 0 =>
                 /\ tasks'[k].actualMinutes >= before
                 /\ tasks'[k].actualMinutes # before =>
                       /\ StopsCurrentSession
                       /\ currentSession[1].taskId = tasks[i].id
                       /\ IsOpen(sessions[currentSession[1].id])
                       /\ IsClosed(sessions'[currentSession[1].id])
                       /\ tasks'[k].actualMinutes = before +
                              sessions'[currentSession[1].id].durationMinutes
      ]_vars

\* a task that was credited two minutes was completed afterwards, at a
\* later time, and kept them
C12_Witness ==
    /\ last = Returned("completeTask", "none")
    /\ \E i \in 1..Len(tasks) :
          /\ tasks[i].actualMinutes = 2
          /\ tasks[i].status = "done"
          /\ \E j \in 1..Len(sessions) :
                /\ sessions[j].taskId = tasks[i].id
                /\ IsClosed(sessions[j])
                /\ tasks[i].completedAt > sessions[j].endedAt

\* C13: updateTask(id, {}) of a stored task sets the updatedAt of that task
\* to the time of the call and changes no other field of it (status,
\* priority, actualMinutes, completedAt, tags, title, noteId), and changes no
\* other task.
C13_EmptyUpdateTouchesOnlyUpdatedAt ==
    [][\A id \in TaskIds :
          (IsStored(id) /\ last'.op = "updateTask" /\ UpdateTask(id, <<>>)) =>
              /\ last'.err = "none"
              /\ Len(tasks') = Len(tasks)
              /\ \A i \in 1..Len(tasks) :
                    IF tasks[i].id = id
                    THEN /\ tasks'[i] = [tasks[i] EXCEPT !.updatedAt = now]
                         /\ \A f \in DOMAIN tasks[i] \ {"updatedAt"} :
                               tasks'[i][f] = tasks[i][f]
                         /\ tasks'[i].updatedAt >= tasks[i].updatedAt
                    ELSE tasks'[i] = tasks[i]
      ]_vars

\* a task that was completed earlier kept its status and its completedAt in
\* a later update, next to a task that was never updated
C13_Witness ==
    /\ last = Returned("updateTask", "none")
    /\ Len(tasks) = 2
    /\ tasks[1].status = "done"
    /\ tasks[1].completedAt = ClockStep
    /\ tasks[1].updatedAt = 2 * ClockStep
    /\ tasks[2].status = "todo"
    /\ tasks[2].updatedAt = ClockStep

\* the number of stored tasks with the status
StoredWith(status) ==
    Cardinality({i \in 1..Len(tasks) : tasks[i].status = status})

\* C14: getTaskStats returns total = the number of tasks stored at the time
\* of the call and todo, inProgress, done = the number of stored tasks with
\* that status, and changes nothing in the repository.
C14_TaskStatsCountsStoredTasks ==
    [][last'.op = "getTaskStats" =>
          /\ last'.err = "none"
          /\ last'.stats.total = Len(tasks)
          /\ last'.stats.todo = StoredWith("todo")
          /\ last'.stats.inProgress = StoredWith("in_progress")
          /\ last'.stats.done = StoredWith("done")
          /\ DOMAIN last'.stats = {"total", "todo", "inProgress", "done"}
          /\ UNCHANGED <<tasks, sessions>>
      ]_vars

\* the counts of a repository that holds a done task and a cancelled task
C14_Witness ==
    /\ last.op = "getTaskStats"
    /\ last.stats = [total |-> 2, todo |-> 0, inProgress |-> 0, done |-> 1]
    /\ Len(tasks) = 2
    /\ \E i \in 1..2 : tasks[i].status = "cancelled"

\* the text is the title with its surrounding whitespace removed: what
\* precedes and follows it in the title is whitespace, and it neither
\* starts nor ends with whitespace
IsTrimmed(text, title) ==
    /\ \E a \in 0..Len(title) :
          /\ a + Len(text) <= Len(title)
          /\ text = SubSeq(title, a + 1, a + Len(text))
          /\ \A i \in 1..a : title[i] \in Whitespace
          /\ \A i \in (a + Len(text) + 1)..Len(title) : title[i] \in Whitespace
    /\ text # <<>> => (text[1] \notin Whitespace /\ text[Len(text)] \notin Whitespace)

\* C15: createTasksFromNote(noteId, titles) creates exactly one task per
\* title and returns them in the order of the titles; each has the noteId,
\* its title without the surrounding whitespace, status todo, priority
\* medium, actualMinutes 0 and no tags; the tasks stored before are
\* unchanged and the created ones are stored after them.
C15_CreateTasksFromNote ==
    [][\A noteId \in NoteIds, taskTitles \in TitleLists :
          (last'.op = "createTasksFromNote"
              /\ CreateTasksFromNote(noteId, taskTitles)) =>
              LET created == last'.tasks IN
              /\ last'.err = "none"
              /\ Len(created) = Len(taskTitles)
              /\ tasks' = tasks \o created
              /\ \A k \in 1..Len(created) :
                    /\ created[k].noteId = noteId
                    /\ IsTrimmed(created[k].title, taskTitles[k])
                    /\ created[k].status = "todo"
                    /\ created[k].priority = "medium"
                    /\ created[k].actualMinutes = 0
                    /\ created[k].tags = <<>>
                    /\ created[k].completedAt = NoDate
                    /\ ~IsStored(created[k].id)
                    /\ \A j \in 1..Len(created) :
                          created[j].id = created[k].id => j = k
      ]_vars

\* two tasks were made from a note, titles trimmed and in order, after a
\* task that was completed before
C15_Witness ==
    /\ last.op = "createTasksFromNote"
    /\ Len(last.tasks) = 2
    /\ last.tasks[1].title = <<"C", " ", "B">>
    /\ last.tasks[2].title = <<"B", "u", "y">>
    /\ last.tasks[1].noteId = "n1"
    /\ Len(tasks) = 3
    /\ tasks[1].status = "done"
    /\ tasks[1].noteId = "n2"
    /\ tasks[2] = last.tasks[1]
    /\ tasks[3] = last.tasks[2]

\* a startTask has passed the await (it is between two of its awaits)
StartTaskIsAt(pc) == ~Idle /\ call.op = "startTask" /\ call.pc = pc

\* the task is stored with the status
HasStatus(ts, id, status) ==
    FindIndex(ts, id) # 0 /\ TaskOf(ts, id).status = status

\* C16: within startTask(t) the status of t is written before the session is
\* created: the step that stores the new session starts from a state where
\* t is stored as in_progress, and in every later state of the call, the
\* final one included, the session of the call is open and t is stored as
\* in_progress.
C16_StatusWrittenBeforeSessionOpened ==
    [][/\ Len(sessions') > Len(sessions) =>
            LET new == sessions'[Len(sessions')] IN
            /\ Len(sessions') = Len(sessions) + 1
            /\ StartTaskIsAt("createSession")
            /\ new.taskId = call.taskId
            /\ IsOpen(new)
            /\ HasStatus(tasks, new.taskId, "in_progress")
            /\ tasks' = tasks
       /\ (call' # <<>> /\ call'.op = "startTask" /\ call'.session # <<>>) =>
            /\ IsOpen(sessions'[call'.session[1].id])
            /\ HasStatus(tasks', call'.taskId, "in_progress")
       /\ (StartTaskIsAt("setState") /\ last' = Returned("startTask", "none")) =>
            /\ currentSession' = call.session
            /\ IsOpen(sessions'[call.session[1].id])
            /\ HasStatus(tasks', call.taskId, "in_progress")
      ]_vars

\* startTask has stored the session and has not yet set the atoms: the task
\* is in_progress in the store and in the task list
C16_Witness ==
    /\ StartTaskIsAt("setState")
    /\ currentSession = <<>>
    /\ call.session # <<>>
    /\ IsOpen(sessions[call.session[1].id])
    /\ HasStatus(tasks, call.taskId, "in_progress")
    /\ HasStatus(tasksAtom, call.taskId, "in_progress")
    /\ ~timerState.isRunning

\* a stopTask has passed the await (it is between two of its awaits)
StopTaskIsAt(pc) == ~Idle /\ call.op = "stopTask" /\ call.pc = pc

\* C17: within stopTask the session is closed and the minutes are credited
\* before currentSession is cleared and the countdown is reset: in every
\* state between two awaits of a stopTask, the state where the minutes are
\* yet to be credited included, currentSession is still the session being
\* stopped and the countdown is as it was; the step that clears
\* currentSession writes nothing to the store, and is reached only once the
\* session is closed and its minutes, if any are due, are credited.
C17_CloseAndCreditBeforeReset ==
    [][/\ (call' # <<>> /\ call'.op = "stopTask") =>
            /\ currentSession' = <<call'.session>>
            /\ currentSession' = currentSession
            /\ timerState' = timerState
            /\ IsClosed(sessions'[call'.session.id])
       /\ (currentSession # <<>> /\ currentSession' = <<>>) =>
            /\ StopTaskIsAt("setState")
            /\ IsClosed(sessions[currentSession[1].id])
            /\ UNCHANGED <<tasks, sessions>>
       /\ (call' # <<>> /\ call' # call /\ call'.op = "stopTask"
              /\ call'.pc = "setState") =>
            LET owner == FindIndex(tasks, call'.session.taskId)
                minutes == call'.dto.durationMinutes
            IN IF minutes # 0 /\ owner # 0
               THEN /\ StopTaskIsAt("updateTask")
                    /\ tasks'[owner].actualMinutes =
                           tasks[owner].actualMinutes + minutes
               ELSE Idle /\ tasks' = tasks
      ]_vars

\* the session is stored closed with a minute, the minute is yet to be
\* credited to the task, and the engine still has the current session and a
\* running countdown
C17_Witness ==
    /\ StopTaskIsAt("updateTask")
    /\ currentSession = <<call.session>>
    /\ IsClosed(sessions[call.session.id])
    /\ sessions[call.session.id].durationMinutes >= 1
    /\ HasStatus(tasks, call.session.taskId, "in_progress")
    /\ TaskOf(tasks, call.session.taskId).actualMinutes = 0
    /\ timerState.isRunning

\* the step ends the handler with an error
ThrowsFrom(op) == last'.op = op /\ last'.err \notin {"none", "pending"}

\* C18: when the createSession of startTask(t) throws after the status write
\* succeeded, the error reaches the caller, t stays in_progress, no session
\* is stored, and currentSession, activeTaskId and the countdown are as they
\* were before the call; when the status write itself throws, no task and
\* no session is written and the countdown is unchanged.
C18_StartTaskFailureKeepsPartialState ==
    [][/\ (StartTaskIsAt("createSession") /\ ThrowsFrom("startTask")) =>
            /\ last'.err = WriteError
            /\ call' = <<>>
            /\ HasStatus(tasks', call.taskId, "in_progress")
            /\ HasStatus(tasksAtom', call.taskId, "in_progress")
            /\ call.session = <<>>
            /\ UNCHANGED <<tasks, sessions>>
            /\ UNCHANGED <<currentSession, activeTaskId, timerState>>
       /\ (Idle /\ ThrowsFrom("startTask")) =>
            /\ call' = <<>>
            /\ UNCHANGED <<tasks, tasksAtom, sessions>>
            /\ UNCHANGED <<currentSession, activeTaskId, timerState>>
       /\ ((Idle /\ call' # <<>> /\ call'.op = "startTask")
              \/ StartTaskIsAt("setTasks") \/ StartTaskIsAt("createSession")) =>
            UNCHANGED <<currentSession, activeTaskId, timerState>>
      ]_vars

\* the first startTask threw at createSession: the task is in_progress, no
\* session is stored and the engine is as it was constructed
C18_Witness ==
    /\ last = Returned("startTask", WriteError)
    /\ Idle
    /\ sessions = <<>>
    /\ \E i \in 1..Len(tasks) :
          /\ tasks[i].status = "in_progress"
          /\ tasksAtom[i].status = "in_progress"
    /\ currentSession = <<>>
    /\ activeTaskId = NoId
    /\ timerState = InitialTimerState

\* C19: when a stopTask with a current session throws at any of its steps,
\* the error reaches the caller and the stored session of the call is still
\* open with durationMinutes 0, the step credits no minutes, and
\* currentSession and the countdown are as they were.
C19_FailedStopLeavesSessionOpen ==
    [][(ThrowsFrom("stopTask") /\ currentSession # <<>>) =>
          LET stored == sessions'[currentSession[1].id] IN
          /\ call' = <<>>
          /\ IsOpen(stored)
          /\ stored.durationMinutes = 0
          /\ \A i \in 1..Len(tasks) :
                tasks'[i].actualMinutes = tasks[i].actualMinutes
          /\ UNCHANGED <<currentSession, timerState>>
      ]_vars

\* C20: isRunning goes from true to false only in a callback of the interval
\* that reaches zero or in the last step of a stopTask that returns; a step
\* in which startTask, stopTask, completeTask, createTask or deleteTask
\* throws leaves the countdown as it was, and so does every completeTask,
\* createTask and deleteTask.
C20_OnlyZeroOrStopEndsCountdown ==
    [][/\ (timerState.isRunning /\ ~timerState'.isRunning) =>
            \/ /\ last'.op = "tick"
               /\ timerState.timeRemaining <= 1
               /\ timerState'.timeRemaining = 0
            \/ /\ last' = Returned("stopTask", "none")
               /\ StopTaskIsAt("setState")
       /\ last'.err \notin {"none", "pending"} =>
            /\ last'.op \in FailingOps \cup {"startTask", "stopTask"}
            /\ timerState' = timerState
            /\ ticks' = ticks
            /\ call' = <<>>
       /\ last'.op \in FailingOps => timerState' = timerState
      ]_vars

\* a stopTask threw while the countdown was running midway: the countdown is
\* still running and the session still current
C20_Witness ==
    /\ last = Returned("stopTask", WriteError)
    /\ Idle
    /\ timerState.isRunning
    /\ ~timerState.isPaused
    /\ ticks > 0
    /\ timerState.timeRemaining = timerState.totalTime - ticks
    /\ currentSession # <<>>

\* the open sessions that are not the current session
Orphans ==
    {i \in OpenSessions : currentSession = <<>> \/ currentSession[1].id # i}

C27_TimeRemainingWithinTotal ==
    /\ 0 <= timerState.timeRemaining
    /\ timerState.timeRemaining <= timerState.totalTime

\* C26: in every reachable state where a session is current, the countdown
\* having completed or not, the open task panel offers the Stop control.
C26_StopOfferedWhileSessionCurrent ==
    currentSession # <<>> => StopOffered

\* C29: a stopTask that closes the current session changes no field of the
\* owning task other than actualMinutes and updatedAt, so its status (an
\* in_progress task stays in_progress) and its completedAt are what they
\* were; it changes no other task and stores and removes none.
C29_StopTaskKeepsTaskStatus ==
    [][(StopsCurrentSession /\ StopTask(NoText, NoText)) =>
          /\ Len(tasks') = Len(tasks)
          /\ \A i \in 1..Len(tasks) :
                IF tasks[i].id = currentSession[1].taskId
                THEN /\ [tasks'[i] EXCEPT
                            !.actualMinutes = tasks[i].actualMinutes,
                            !.updatedAt = tasks[i].updatedAt] = tasks[i]
                     /\ tasks'[i].status = tasks[i].status
                     /\ tasks'[i].completedAt = tasks[i].completedAt
                ELSE tasks'[i] = tasks[i]
      ]_vars

\* a session of two minutes was stopped: its task was credited at the time
\* of the stop and is still in_progress, with no completedAt
C29_Witness ==
    /\ last = Returned("stopTask", "none")
    /\ currentSession = <<>>
    /\ \E i \in 1..Len(tasks) :
          /\ tasks[i].status = "in_progress"
          /\ tasks[i].actualMinutes = 2
          /\ tasks[i].updatedAt = now
          /\ tasks[i].completedAt = NoDate
          /\ \E j \in 1..Len(sessions) :
                /\ sessions[j].taskId = tasks[i].id
                /\ IsClosed(sessions[j])
                /\ sessions[j].endedAt = now
                /\ sessions[j].durationMinutes = 2

\* the current session belongs to a task that is no longer stored
CurrentIsOrphaned ==
    /\ currentSession # <<>>
    /\ ~IsStored(currentSession[1].taskId)

\* C30: deleteTask removes the task record and changes no stored session;
\* a stopTask whose current session is open and belongs to a deleted task
\* returns without error, closes that session, changes no task, clears the
\* current session and resets the countdown.
C30_DeleteOrphansSessions ==
    [][/\ \A id \in TaskIds :
             (last'.op = "deleteTask" /\ DeleteTask(id)) =>
                 /\ last'.err = "none"
                 /\ sessions' = sessions
                 /\ FindIndex(tasks', id) = 0
                 /\ Len(tasks') = Len(tasks) - (IF IsStored(id) THEN 1 ELSE 0)
       /\ (/\ CurrentIsOrphaned
           /\ IsOpen(sessions[currentSession[1].id])
           /\ last'.op = "stopTask"
           /\ StopTask(NoText, NoText)) =>
             LET id == currentSession[1].id IN
             /\ last'.err = "none"
             /\ IsClosed(sessions'[id])
             /\ sessions'[id].endedAt = now
             /\ sessions'[id].durationMinutes =
                    DurationMinutes(sessions[id].startedAt, now)
             /\ tasks' = tasks
             /\ currentSession' = <<>>
             /\ ~timerState'.isRunning
             /\ ~timerState'.isPaused
             /\ timerState'.timeRemaining = WorkSeconds(pomodoroSettings)
      ]_vars

\* a task was deleted while its session was current, and the session was
\* stopped two minutes after its start: it is stored closed with those
\* minutes, its task is not stored, and the task that is stored has none
C30_Witness ==
    /\ last = Returned("stopTask", "none")
    /\ currentSession = <<>>
    /\ Len(tasks) = 1
    /\ tasks[1].actualMinutes = 0
    /\ \E j \in 1..Len(sessions) :
          /\ ~IsStored(sessions[j].taskId)
          /\ IsClosed(sessions[j])
          /\ sessions[j].endedAt = now
          /\ sessions[j].durationMinutes = 2

\* a call of the step failed: it threw
Failed(event) == event.err \notin {"none", "pending"}

\* C21: while a call of startTask or stopTask is in flight, the callback of
\* the interval is enabled whenever the countdown is running and not
\* paused, and it takes one second off timeRemaining and leaves the calls
\* in flight; a step that places a call, and a step in which a call fails,
\* leave TimerState as it is.
C21_PendingCallsDoNotBlockTicks ==
    /\ []((inFlight # <<>> /\ TickEnabled(timerState)) => ENABLED Tick)
    /\ [][/\ (inFlight # <<>> /\ last'.op = "tick" /\ Tick) =>
                /\ timerState'.timeRemaining = timerState.timeRemaining - 1
                /\ inFlight' = inFlight
          /\ (last' # last /\ (last'.err = "pending" \/ Failed(last'))) =>
                timerState' = timerState
         ]_vars

\* the countdown has gone on for two seconds while a stopTask was in
\* flight
C21_Witness ==
    /\ last = Returned("tick", "none")
    /\ ticks = 2
    /\ timerState.isRunning
    /\ timerState.timeRemaining = timerState.totalTime - 2
    /\ \E k \in 1..Len(inFlight) : inFlight[k].op = "stopTask"

\* C23: completedPomodoros never decreases from one state to the next, a
\* startTask that returns after the countdown has completed included.
C23_CompletedPomodorosNeverDecrease ==
    [][timerState'.completedPomodoros >= timerState.completedPomodoros]_vars

\* C25: when a stopTask of one session and a startTask of another were in
\* flight together, the one that returns last leaves the session of the
\* startTask current and the countdown running: a startTask that returns
\* makes its session current with the countdown running, and a stopTask
\* that returns when the session that is current is not the one it closed
\* and its countdown is running leaves both.
C25_OverlapEndsTrackingNewSession ==
    [][\A k \in InFlightSlots :
          /\ (k <= Len(inFlight) /\ SlowStartTaskSetState(k)) =>
                /\ currentSession' = inFlight[k].session
                /\ timerState'.isRunning
          /\ (/\ k <= Len(inFlight)
              /\ SlowStopTaskSetState(k)
              /\ currentSession # <<>>
              /\ currentSession[1].id # inFlight[k].session.id
              /\ timerState.isRunning) =>
                /\ currentSession' = currentSession
                /\ timerState'.isRunning
      ]_vars

\* C28: in every reachable state a running countdown has a current session.
C28_RunningImpliesCurrentSession ==
    timerState.isRunning => currentSession # <<>>

\* a startTask has returned while a stopTask of the session before is
\* still in flight: the countdown runs and the new session is current
C28_Witness ==
    /\ last = Returned("startTask", "none")
    /\ timerState.isRunning
    /\ currentSession # <<>>
    /\ \E k \in 1..Len(inFlight) :
          /\ inFlight[k].op = "stopTask"
          /\ inFlight[k].session.id # currentSession[1].id

\* C24: each session is credited to its task at most once: the
\* actualMinutes of a stored task never exceeds the sum of the
\* durationMinutes of its closed sessions, a stopTask that is called again
\* before the first call has returned included.
C24_SessionCreditedAtMostOnce ==
    \A i \in 1..Len(tasks) :
        tasks[i].actualMinutes <= ClosedMinutes(sessions, tasks[i].id)

====
